---- MODULE Spec2Model ----
(***************************************************************************)
(* Model of the invoice extraction engine (src/generate_invoices.py) and   *)
(* of the upload flow that stores its records (src/app.py).                *)
(*                                                                         *)
(* Conventions:                                                            *)
(*  - text is a TLA+ string; Lower, Strip, Contains and Replace work on    *)
(*    its characters as Python's str methods do;                           *)
(*  - a cell of a DataFrame is a record [t, s, n]: t is "nan" (absent),    *)
(*    "str" (text s), "int" or "float" (number n, held in thousandths);    *)
(*  - rows and columns are numbered from 1 here and from 0 in the source,  *)
(*    so every index of the model is the source's index plus one and None  *)
(*    (no row, no column) is 0;                                            *)
(*  - the Arabic key phrases of extract_metadata are written as ASCII      *)
(*    transliterations, which Lower leaves unchanged as str.lower leaves   *)
(*    the Arabic ones.                                                     *)
(***************************************************************************)
EXTENDS Integers, Sequences, FiniteSets, TLC

\* ------------------------------------------------------------------------
\* Text
\* ------------------------------------------------------------------------

LowerOf ==
  [c \in {"A","B","C","D","E","F","G","H","I","J","K","L","M","N","O","P",
          "Q","R","S","T","U","V","W","X","Y","Z"} |->
     CASE c = "A" -> "a" [] c = "B" -> "b" [] c = "C" -> "c" [] c = "D" -> "d"
       [] c = "E" -> "e" [] c = "F" -> "f" [] c = "G" -> "g" [] c = "H" -> "h"
       [] c = "I" -> "i" [] c = "J" -> "j" [] c = "K" -> "k" [] c = "L" -> "l"
       [] c = "M" -> "m" [] c = "N" -> "n" [] c = "O" -> "o" [] c = "P" -> "p"
       [] c = "Q" -> "q" [] c = "R" -> "r" [] c = "S" -> "s" [] c = "T" -> "t"
       [] c = "U" -> "u" [] c = "V" -> "v" [] c = "W" -> "w" [] c = "X" -> "x"
       [] c = "Y" -> "y" [] c = "Z" -> "z"]

CharAt(s, k) == SubSeq(s, k, k)

RECURSIVE Lower(_)
Lower(s) ==
  IF Len(s) = 0 THEN ""
  ELSE LET c == CharAt(s, 1)
       IN  (IF c \in DOMAIN LowerOf THEN LowerOf[c] ELSE c)
             \o Lower(SubSeq(s, 2, Len(s)))

RECURSIVE LStrip(_)
LStrip(s) ==
  IF Len(s) > 0 /\ CharAt(s, 1) = " " THEN LStrip(SubSeq(s, 2, Len(s))) ELSE s

RECURSIVE RStrip(_)
RStrip(s) ==
  IF Len(s) > 0 /\ CharAt(s, Len(s)) = " "
  THEN RStrip(SubSeq(s, 1, Len(s) - 1)) ELSE s

Strip(s) == RStrip(LStrip(s))

\* Python's `sub in s`
Contains(s, sub) ==
  \E k \in 1..(Len(s) - Len(sub) + 1) : SubSeq(s, k, k + Len(sub) - 1) = sub

\* Python's s.replace(old, new) for a one-character old
RECURSIVE Replace(_, _, _)
Replace(s, old, new) ==
  IF Len(s) = 0 THEN ""
  ELSE (IF CharAt(s, 1) = old THEN new ELSE CharAt(s, 1))
         \o Replace(SubSeq(s, 2, Len(s)), old, new)

\* ------------------------------------------------------------------------
\* Numbers as text
\* ------------------------------------------------------------------------

DigitChar == <<"0","1","2","3","4","5","6","7","8","9">>

RECURSIVE NatStr(_)
NatStr(k) ==
  IF k < 10 THEN DigitChar[k + 1]
  ELSE NatStr(k \div 10) \o DigitChar[(k % 10) + 1]

Pad3(k) ==
  IF k < 10 THEN "00" \o NatStr(k)
  ELSE IF k < 100 THEN "0" \o NatStr(k) ELSE NatStr(k)

RECURSIVE DropZeros(_)
DropZeros(s) ==
  IF Len(s) > 1 /\ CharAt(s, Len(s)) = "0"
  THEN DropZeros(SubSeq(s, 1, Len(s) - 1)) ELSE s

\* f"{x:.3f}" of a number of n thousandths
Fmt3(n) ==
  IF n < 0 THEN "-" \o NatStr((0 - n) \div 1000) \o "." \o Pad3((0 - n) % 1000)
  ELSE NatStr(n \div 1000) \o "." \o Pad3(n % 1000)

\* str(x) of a float of n thousandths: the shortest decimal, one digit at least
FloatStr(n) ==
  IF n < 0
  THEN "-" \o NatStr((0 - n) \div 1000) \o "." \o DropZeros(Pad3((0 - n) % 1000))
  ELSE NatStr(n \div 1000) \o "." \o DropZeros(Pad3(n % 1000))

\* ------------------------------------------------------------------------
\* Cells
\* ------------------------------------------------------------------------

None == 0

NaN == [t |-> "nan", s |-> "", n |-> 0]
Txt(s) == [t |-> "str", s |-> s, n |-> 0]
Int_(k) == [t |-> "int", s |-> "", n |-> k * 1000]
Flt(n) == [t |-> "float", s |-> "", n |-> n]

notna(c) == c.t # "nan"

\* str(x) of a cell value
PyStr(c) ==
  CASE c.t = "nan" -> "nan"
    [] c.t = "str" -> c.s
    [] c.t = "int" -> (IF c.n < 0 THEN "-" \o NatStr((0 - c.n) \div 1000)
                       ELSE NatStr(c.n \div 1000))
    [] c.t = "float" -> FloatStr(c.n)
    [] OTHER -> "error"

\* ------------------------------------------------------------------------
\* Header Locator
\* ------------------------------------------------------------------------

\* vals = [str(x).lower().strip() for x in row.values if pd.notna(x)]
RowVals(row) == { Strip(Lower(PyStr(row[c]))) : c \in {k \in 1..Len(row) : notna(row[k])} }
\* a locator that asks for "qty" and "unit" both
IsHeaderRowBoth(row) ==
  LET vals == RowVals(row)
  IN  "description" \in vals /\ ("qty" \in vals /\ "unit" \in vals)


IsHeaderRow(row) ==
  LET vals == RowVals(row)
  IN  "description" \in vals /\ ("qty" \in vals \/ "unit" \in vals)

\* for i, row in df.iterrows(): if ...: header_row_idx = i; break
RECURSIVE LocateFrom(_, _)
LocateFrom(df, i) ==
  IF i > Len(df) THEN None
  ELSE IF IsHeaderRow(df[i]) THEN i
  ELSE LocateFrom(df, i + 1)

HeaderLocator(df) == LocateFrom(df, 1)

\* ------------------------------------------------------------------------
\* Column Role Mapper
\* ------------------------------------------------------------------------

EmptyCols ==
  [Description |-> None, Qty |-> None, Unit |-> None, Date |-> None,
   Total |-> None, Discount |-> None, Debit |-> <<>>, Credit |-> <<>>]

\* the if/elif chain applied to one header cell
MapCell(cols, col_idx, val) ==
  IF ~notna(val) THEN cols
  ELSE LET v_lower == Lower(Strip(PyStr(val)))
       IN  IF Contains(v_lower, "description")
             THEN [cols EXCEPT !.Description = col_idx]
           ELSE IF Contains(v_lower, "qty")
             THEN [cols EXCEPT !.Qty = col_idx]
           ELSE IF Contains(v_lower, "unit")
             THEN [cols EXCEPT !.Unit = col_idx]
           ELSE IF Contains(v_lower, "date") /\ ~Contains(v_lower, "admission")
             THEN [cols EXCEPT !.Date = col_idx]
           ELSE IF Contains(v_lower, "total") /\ ~Contains(v_lower, "grand")
             THEN [cols EXCEPT !.Total = col_idx]
           ELSE IF Contains(v_lower, "discount")
             THEN [cols EXCEPT !.Discount = col_idx]
           ELSE IF Contains(v_lower, "debit")
             THEN [cols EXCEPT !.Debit = Append(@, col_idx)]
           ELSE IF Contains(v_lower, "credit")
             THEN [cols EXCEPT !.Credit = Append(@, col_idx)]
           ELSE cols

RECURSIVE MapFrom(_, _, _)
MapFrom(cols, row, col_idx) ==
  IF col_idx > Len(row) THEN cols
  ELSE MapFrom(MapCell(cols, col_idx, row[col_idx]), row, col_idx + 1)

MapColumns(row) == MapFrom(EmptyCols, row, 1)

PatientOf(lst) == IF Len(lst) > 0 THEN lst[1] ELSE None
\* an Insurer role that takes the last column of the list
InsurerOfLast(lst) == IF Len(lst) > 0 THEN lst[Len(lst)] ELSE None


InsurerOf(lst) == IF Len(lst) > 1 THEN lst[2] ELSE None

\* ------------------------------------------------------------------------
\* Metadata Extractor
\* ------------------------------------------------------------------------

LookaheadEnd == 20

DefaultHospital == "Andalusia Hospitals Smouha"
DefaultAddress == "35 Bahaa El Din Ghatoury St, Smouha, Alexandria"
DefaultVat == "202471187"

\* metadata = {} followed by the three defaults
DefaultMetadata ==
  [f \in {"Hospital Name", "Address", "VAT No"} |->
     CASE f = "Hospital Name" -> DefaultHospital
       [] f = "Address" -> DefaultAddress
       [] OTHER -> DefaultVat]

\* row_vals = [str(x).strip() for x in row.values]
StrVals(row) == [c \in 1..Len(row) |-> Strip(PyStr(row[c]))]

NotFound == [found |-> FALSE, val |-> ""]
\* a candidate test that lets a lone "-" through
AcceptableDash(candidate) ==
  /\ candidate # ""
  /\ Lower(candidate) # "nan"
  /\ Strip(candidate) # ""


Acceptable(candidate) ==
  /\ candidate # ""
  /\ Lower(candidate) # "nan"
  /\ Strip(candidate) # ""
  /\ Strip(candidate) # "-"

\* for offset in range(1, 20): the first acceptable candidate after k_idx
RECURSIVE WindowFrom(_, _, _)
WindowFrom(search_row_vals, k_idx, offset) ==
  IF offset >= LookaheadEnd THEN NotFound
  ELSE IF /\ k_idx + offset <= Len(search_row_vals)
          /\ Acceptable(search_row_vals[k_idx + offset])
       THEN [found |-> TRUE, val |-> search_row_vals[k_idx + offset]]
       ELSE WindowFrom(search_row_vals, k_idx, offset + 1)

KeyMatches(key_list, cell_val) ==
  LET cell_lower == Lower(cell_val)
  IN  \E j \in 1..Len(key_list) : Contains(cell_lower, Lower(key_list[j]))

\* for k_idx, cell_val in enumerate(search_row_vals): a cell that holds a key
\* and has no acceptable candidate in its window lets the scan go on
RECURSIVE FindFrom(_, _, _)
FindFrom(key_list, search_row_vals, k_idx) ==
  IF k_idx > Len(search_row_vals) THEN NotFound
  ELSE IF KeyMatches(key_list, search_row_vals[k_idx])
       THEN LET candidate == WindowFrom(search_row_vals, k_idx, 1)
            IN  IF candidate.found THEN candidate
                ELSE FindFrom(key_list, search_row_vals, k_idx + 1)
       ELSE FindFrom(key_list, search_row_vals, k_idx + 1)

find_val(key_list, search_row_vals) == FindFrom(key_list, search_row_vals, 1)

\* the blocks of extract_metadata, in source order
FieldOrder ==
  <<"Patient Name", "Invoice No", "Visit No", "File No", "Physician",
    "Admission Date", "Discharge Date", "Insurer", "Nationality", "VAT No",
    "Contract", "Department">>

FieldKeys(f) ==
  CASE f = "Patient Name" -> <<"patient name", "ism almarid">>
    [] f = "Invoice No" -> <<"invoice", "raqm alfatura">>
    [] f = "Visit No" -> <<"visit", "raqm alziyara">>
    [] f = "File No" -> <<"file no", "raqm almalaf", "file number">>
    [] f = "Physician" -> <<"physician", "doctor", "alhayb">>
    [] f = "Admission Date" ->
         <<"date of admission", "admission date", "tarikh aldukhul">>
    [] f = "Discharge Date" ->
         <<"date of discharge", "discharge date", "tarikh alkhuruj">>
    [] f = "Insurer" -> <<"insurer", "almuamman">>
    [] f = "Nationality" -> <<"nationality", "aljinsia">>
    [] f = "VAT No" ->
         <<"vat no", "tax id", "registration no", "altasjil aldaribi">>
    [] f = "Contract" -> <<"contract", "alaqd">>
    [] f = "Department" ->
         <<"department", "dept", "specialty", "alqism", "altakhasus">>
\* blocks that search whether or not the field is set
SearchesAlways(metadata, f) == TRUE

\* the `if ... not in metadata` of a block (VAT No: or still the default)
Searches(metadata, f) ==
  \/ f \notin DOMAIN metadata
  \/ f = "VAT No" /\ metadata[f] = DefaultVat
\* blocks without the label-as-value guards
AcceptsAny(f, val) == val.found

\* the `if val ...` of a block
Accepts(f, val) ==
  /\ val.found
  /\ f = "Invoice No" => ~Contains(Lower(val.val), "invoice")
  /\ f = "Insurer" => Lower(val.val) # "patient"

Put(metadata, f, v) ==
  [g \in DOMAIN metadata \cup {f} |-> IF g = f THEN v ELSE metadata[g]]

\* one block: metadata after it
MetaBlock(metadata, f, row_vals) ==
  IF Searches(metadata, f)
  THEN LET val == find_val(FieldKeys(f), row_vals)
       IN  IF Accepts(f, val) THEN Put(metadata, f, val.val) ELSE metadata
  ELSE metadata

RECURSIVE MetaBlocksFrom(_, _, _)
MetaBlocksFrom(metadata, row_vals, b) ==
  IF b > Len(FieldOrder) THEN metadata
  ELSE MetaBlocksFrom(MetaBlock(metadata, FieldOrder[b], row_vals),
                      row_vals, b + 1)

\* the body of `for i, row in df.head(stop_row_idx).iterrows()`
MetaRow(metadata, row) == MetaBlocksFrom(metadata, StrVals(row), 1)

\* the value of `val` in each block of the row (called: find_val was run)
RowFinds(metadata, row) ==
  [f \in {FieldOrder[b] : b \in 1..Len(FieldOrder)} |->
     IF Searches(metadata, f)
     THEN LET val == find_val(FieldKeys(f), StrVals(row))
          IN  [called |-> TRUE, found |-> val.found, val |-> val.val]
     ELSE [called |-> FALSE, found |-> FALSE, val |-> ""]]

\* metadata.get(key): None is [has |-> FALSE]
Get(metadata, f) ==
  IF f \in DOMAIN metadata THEN [has |-> TRUE, val |-> metadata[f]]
  ELSE [has |-> FALSE, val |-> ""]

\* ------------------------------------------------------------------------
\* Row Classifier
\* ------------------------------------------------------------------------

\* def get_v(c)
get_v(row, c) == IF c # None /\ notna(row[c]) THEN row[c] ELSE Txt("")

\* Python truth value of a cell value
Truthy(v) == IF v.t = "str" THEN v.s # "" ELSE v.n # 0

Digits == {"0","1","2","3","4","5","6","7","8","9"}

AllDigits(s) == \A k \in 1..Len(s) : CharAt(s, k) \in Digits

RECURSIVE DigitsVal(_)
DigitsVal(s) ==
  IF Len(s) = 0 THEN 0
  ELSE 10 * DigitsVal(SubSeq(s, 1, Len(s) - 1))
         + (CHOOSE d \in 0..9 : DigitChar[d + 1] = CharAt(s, Len(s)))

\* the thousandths a fraction's digits stand for (digits after the third
\* are below the model's resolution)
FracVal(s) ==
  LET t == SubSeq(s, 1, IF Len(s) < 3 THEN Len(s) ELSE 3)
  IN  CASE Len(t) = 0 -> 0
        [] Len(t) = 1 -> 100 * DigitsVal(t)
        [] Len(t) = 2 -> 10 * DigitsVal(t)
        [] OTHER -> DigitsVal(t)

DotAt(s) ==
  IF \E k \in 1..Len(s) : CharAt(s, k) = "."
  THEN CHOOSE k \in 1..Len(s) :
         CharAt(s, k) = "." /\ \A j \in 1..(k - 1) : CharAt(s, j) # "."
  ELSE 0

\* float(s) of an unsigned decimal: [ok, val]
ParseUnsigned(s) ==
  LET d == DotAt(s)
      ip == IF d = 0 THEN s ELSE SubSeq(s, 1, d - 1)
      fp == IF d = 0 THEN "" ELSE SubSeq(s, d + 1, Len(s))
  IN  IF AllDigits(ip) /\ AllDigits(fp) /\ Len(ip) + Len(fp) > 0
      THEN [ok |-> TRUE, val |-> 1000 * DigitsVal(ip) + FracVal(fp)]
      ELSE [ok |-> FALSE, val |-> 0]

\* float(s): decimal numerals with an optional sign, blanks around them
PyFloat(s) ==
  LET t == Strip(s)
  IN  IF Len(t) > 0 /\ CharAt(t, 1) = "-"
      THEN LET r == ParseUnsigned(SubSeq(t, 2, Len(t)))
           IN  [ok |-> r.ok, val |-> 0 - r.val]
      ELSE IF Len(t) > 0 /\ CharAt(t, 1) = "+"
      THEN ParseUnsigned(SubSeq(t, 2, Len(t)))
      ELSE ParseUnsigned(t)

\* try: float(str(v).replace(',', '')) except: 0.0
ToFloat(v) ==
  LET r == PyFloat(Replace(PyStr(v), ",", ""))
  IN  IF r.ok THEN r.val ELSE 0

\* def fmt(x)
fmt(x) == IF x.t \in {"int", "float"} THEN Fmt3(x.n) ELSE PyStr(x)

\* the values read from one row below the header
ReadRow(row, cols) ==
  [desc_raw |-> Strip(PyStr(get_v(row, cols.Description))),
   date_val |-> Strip(PyStr(get_v(row, cols.Date))),
   qty |-> get_v(row, cols.Qty),
   unit |-> get_v(row, cols.Unit),
   total |-> get_v(row, cols.Total),
   disc |-> get_v(row, cols.Discount),
   p_debit |-> get_v(row, PatientOf(cols.Debit)),
   p_credit |-> get_v(row, PatientOf(cols.Credit)),
   i_debit |-> get_v(row, InsurerOf(cols.Debit)),
   i_credit |-> get_v(row, InsurerOf(cols.Credit))]
\* a termination test that looks at the Description text only
IsGrandTotalDescOnly(r) == Contains(r.desc_raw, "Grand Total")


IsGrandTotal(r) ==
  Contains(r.desc_raw, "Grand Total") \/ Contains(r.date_val, "Grand Total")

\* a skip rule that looks at the Description only
IsSkippedDescOnly(r) == r.desc_raw = ""

\* if not desc_raw and not qty and not p_debit and not i_debit: continue
IsSkipped(r) ==
  r.desc_raw = "" /\ ~Truthy(r.qty) /\ ~Truthy(r.p_debit) /\ ~Truthy(r.i_debit)

\* a patient grand total without the fallback to the debit portions
GrandTotalPNoFallback(r) == ToFloat(r.total)

\* grand_total_p at the terminator row
GrandTotalP(r) ==
  IF ToFloat(r.total) = 0 THEN ToFloat(r.p_debit) + ToFloat(r.i_debit)
  ELSE ToFloat(r.total)

\* grand_total_i at the terminator row
GrandTotalI(r) == ToFloat(r.i_debit)

\* a classification that tests for a category header first
LineItemHeaderFirst(r, i) ==
  IF r.desc_raw # "" /\ r.qty = Txt("")
  THEN [kind |-> "CategoryHeader", row |-> i,
        cells |-> <<r.desc_raw, "", "", "", "", "", "", "", "", "">>]
  ELSE IF Contains(Lower(r.desc_raw), "total")
  THEN [kind |-> "Subtotal", row |-> i,
        cells |-> <<r.desc_raw, "", "", "", fmt(r.total), "", fmt(r.p_debit),
                    fmt(r.p_credit), fmt(r.i_debit), fmt(r.i_credit)>>]
  ELSE [kind |-> "Item", row |-> i,
        cells |-> <<r.desc_raw, fmt(r.qty), PyStr(r.unit), r.date_val,
                    fmt(r.total), fmt(r.disc), fmt(r.p_debit), fmt(r.p_credit),
                    fmt(r.i_debit), fmt(r.i_credit)>>]

\* the row appended to table_data for a surviving row i
LineItem(r, i) ==
  IF Contains(Lower(r.desc_raw), "total")
  THEN [kind |-> "Subtotal", row |-> i,
        cells |-> <<r.desc_raw, "", "", "", fmt(r.total), "", fmt(r.p_debit),
                    fmt(r.p_credit), fmt(r.i_debit), fmt(r.i_credit)>>]
  ELSE IF r.desc_raw # "" /\ r.qty = Txt("")
  THEN [kind |-> "CategoryHeader", row |-> i,
        cells |-> <<r.desc_raw, "", "", "", "", "", "", "", "", "">>]
  ELSE [kind |-> "Item", row |-> i,
        cells |-> <<r.desc_raw, fmt(r.qty), PyStr(r.unit), r.date_val,
                    fmt(r.total), fmt(r.disc), fmt(r.p_debit), fmt(r.p_credit),
                    fmt(r.i_debit), fmt(r.i_credit)>>]

\* Paragraph(text, style) parses the markup of its text when it is
\* constructed and raises ValueError on a tag that is opened and not closed
MarkupError(text) == Contains(text, "<b>") /\ ~Contains(text, "</b>")

\* the Description paragraph of row i cannot be constructed
ParagraphRaises(r) ==
  ~IsGrandTotal(r) /\ ~IsSkipped(r) /\ MarkupError(r.desc_raw)

\* ------------------------------------------------------------------------
\* Upload flow helpers (app.py)
\* ------------------------------------------------------------------------

\* header_map.get(key): the dict keeps the last column of a repeated label
RECURSIVE HeaderMapFrom(_, _, _)
HeaderMapFrom(header_row, key, col_idx) ==
  IF col_idx < 1 THEN None
  ELSE IF notna(header_row[col_idx]) /\ Strip(PyStr(header_row[col_idx])) = key
       THEN col_idx
       ELSE HeaderMapFrom(header_row, key, col_idx - 1)

HeaderMapGet(header_row, key) == HeaderMapFrom(header_row, key, Len(header_row))

\* def get_val(r, idx)
get_val(r, idx) ==
  IF idx = None THEN Txt("") ELSE IF notna(r[idx]) THEN r[idx] ELSE Txt("")

\* the loop that finds grand_total in the upload flow
RECURSIVE AppTotalFrom(_, _, _, _, _)
AppTotalFrom(df, i, col_desc, col_net, col_date) ==
  IF i > Len(df) THEN 0
  ELSE IF \/ Contains(Strip(PyStr(get_val(df[i], col_date))), "Grand Total")
          \/ Contains(Strip(PyStr(get_val(df[i], col_desc))), "Grand Total")
       THEN ToFloat(get_val(df[i], col_net))
       ELSE AppTotalFrom(df, i + 1, col_desc, col_net, col_date)

AppGrandTotal(df, header_row_idx) ==
  AppTotalFrom(df, header_row_idx + 1,
               HeaderMapGet(df[header_row_idx], "Description"),
               HeaderMapGet(df[header_row_idx], "Debit"),
               HeaderMapGet(df[header_row_idx], "Date"))

\* f"{x}" of metadata.get(key)
GetStr(g) == IF g.has THEN g.val ELSE "None"
\* a file name logic that replaces '/' only
FilenameBaseSlashOnly(metadata, sheet) ==
  LET visit_no == Get(metadata, "Visit No")
      inv_num == Get(metadata, "Invoice No")
      base == IF visit_no.has /\ visit_no.val # "" /\ visit_no.val # "-"
                THEN "Visit_" \o visit_no.val
              ELSE IF inv_num.has /\ inv_num.val # "" /\ inv_num.val # "-"
                THEN "Invoice_" \o inv_num.val
              ELSE "Unknown_Sheet_" \o sheet
  IN  Replace(base, "/", "-")

\* the filename logic shared by app.py and main()
FilenameBase(metadata, sheet) ==
  LET visit_no == Get(metadata, "Visit No")
      inv_num == Get(metadata, "Invoice No")
      base == IF visit_no.has /\ visit_no.val # "" /\ visit_no.val # "-"
                THEN "Visit_" \o visit_no.val
              ELSE IF inv_num.has /\ inv_num.val # "" /\ inv_num.val # "-"
                THEN "Invoice_" \o inv_num.val
              ELSE "Unknown_Sheet_" \o sheet
  IN  Replace(Replace(base, "/", "-"), "\\", "-")

PdfPath(filename_base) == "invoices/" \o filename_base \o ".pdf"

NoRecord ==
  [id |-> "", sheet_name |-> "", metadata |-> <<>>, grand_total |-> 0,
   pdf_path |-> ""]

\* current_db = [d for d in current_db if d['id'] != inv_record['id']]
RECURSIVE WithoutId(_, _)
WithoutId(db, id) ==
  IF db = <<>> THEN <<>>
  ELSE IF Head(db).id # id THEN <<Head(db)>> \o WithoutId(Tail(db), id)
  ELSE WithoutId(Tail(db), id)
\* a store that appends without removing the record of the same id
StoreRecordAppend(db, rec) == Append(db, rec)

\* the replace-then-append of the upload flow
StoreRecord(db, rec) == Append(WithoutId(db, rec.id), rec)

\* ------------------------------------------------------------------------
\* Inputs: the workbooks a user can upload
\* ------------------------------------------------------------------------

MaxRuns == 2
MaxLocRows == 3
MaxMetaRows == 2
MaxItemRows == 2
MaxGap == 21

SeqsUpTo(S, n) == UNION {[1..k -> S] : k \in 0..n}

\* a row of w cells: the cells of r, then absent cells
Pad(r, w) == [c \in 1..w |-> IF c <= Len(r) THEN r[c] ELSE NaN]

PadAll(rows, w) == [k \in 1..Len(rows) |-> Pad(rows[k], w)]

\* rows for the Header Locator
LocRows ==
  {<<Txt("Description"), Txt("Qty"), Txt("Debit"), Txt("Credit")>>,
   <<Txt(" DESCRIPTION "), NaN, Txt("Unit "), Txt("Debit")>>,
   <<Txt("Description of service"), Txt("Qty"), Flt(2500), NaN>>,
   <<Txt("Description"), Txt("Quantity"), Int_(1), NaN>>}

LocSheets == SeqsUpTo(LocRows, MaxLocRows)

\* the header row of the spec's end-to-end scenario
ScenarioHeader ==
  <<Txt("Description"), Txt("Qty"), Txt("Unit"), Txt("Date"), Txt("Total"),
    Txt("Discount"), Txt("Debit"), Txt("Credit"), Txt("Debit"), Txt("Credit")>>

ScenarioItem ==
  <<Txt("Room Fee"), Int_(1), Txt("Each"), Txt("2024-01-01"), Flt(100000),
    Int_(0), Flt(80000), Int_(0), Flt(20000), Int_(0)>>

ScenarioTerminator ==
  <<Txt("Grand Total"), Txt("-"), Txt("-"), Txt("-"), Flt(100000), Txt("-"),
    Flt(80000), Txt("-"), Flt(20000), Txt("-")>>

ScenarioSheet == <<ScenarioHeader, ScenarioItem, ScenarioTerminator>>

\* header rows with two, one and no Debit and Credit cells, and one with two
\* cells that mention "total" and two that mention "unit"
HeaderRows ==
  {ScenarioHeader,
   <<Txt("Description"), Txt("Qty"), Txt("Unit"), Txt("Date"), Txt("Total"),
     Txt("Discount"), Txt("Debit"), Txt("Credit"), NaN, NaN>>,
   <<Txt("Description"), Txt("Qty"), Txt("Unit"), Txt("Date"), Txt("Total"),
     Txt("Discount"), Txt(" debit "), NaN, Txt("DEBIT"), NaN>>,
   <<Txt("Description"), Txt("Qty"), Txt("Unit"), Txt("Date"), Txt("Total"),
     Txt("Discount"), NaN, NaN, NaN, NaN>>,
   <<Txt("Description"), Txt("Qty"), NaN, NaN, NaN, NaN, NaN, NaN, NaN, NaN>>,
   <<Txt("Description"), Txt("Qty"), Txt("Unit"), Txt("Date"), Txt("Total"),
     Txt("Total Discount"), Txt("Debit"), Txt("Credit"), Txt("Unit Price"),
     NaN>>}

\* rows below the header
ItemRows ==
  {ScenarioItem,
   ScenarioTerminator,
   <<NaN, NaN, NaN, Txt("Grand Total :"), Txt("n/a"), NaN, Txt("1,250.500"), NaN,
     Txt("30"), NaN>>,
   <<Txt("grand total"), NaN, NaN, NaN, Flt(5000), NaN, Flt(5000), NaN, NaN,
     NaN>>,
   <<Txt("Laboratory"), NaN, NaN, NaN, NaN, NaN, NaN, NaN, NaN, NaN>>,
   <<NaN, Int_(0), NaN, NaN, NaN, NaN, Int_(0), NaN, NaN, NaN>>,
   <<NaN, NaN, Int_(2), NaN, Txt("n/a"), NaN, Flt(12500), NaN, NaN,
     Flt(500)>>}

ItemSheets ==
  {<<h>> \o rows : h \in {ScenarioHeader}, rows \in SeqsUpTo(ItemRows, MaxItemRows)}
  \cup {<<h, r>> : h \in HeaderRows, r \in ItemRows}

\* rows above the header
MetaRows ==
  {<<Txt("Invoice"), Txt("Invoice"), NaN, NaN>>,
   <<Txt("INVOICE NO:"), Int_(999), Txt("Visit No"), Txt("V/7")>>,
   <<Txt("Insurer"), Txt("Patient"), Txt("VAT No"), Txt("555")>>,
   <<Txt("Tax ID"), Int_(777), Txt("Insurer"), Txt("AXA")>>,
   <<Txt("ism almarid"), NaN, Txt("Omar"), Txt("-"), Txt("visit"),
     Txt("A\\9")>>}

MetaSheets ==
  {PadAll(rows \o <<ScenarioHeader>>, 10) : rows \in SeqsUpTo(MetaRows, MaxMetaRows)}

\* wide rows for the lookahead window: a label in column 1, a value `gap`
\* columns to its right, fillers between them, and in the rows of the second
\* set a second label just before the value
Fillers == {NaN, Txt(""), Txt(" - ")}

GapRow(label, filler, gap, value) ==
  [c \in 1..(MaxGap + 2) |->
     IF c = 1 THEN Txt(label) ELSE IF c = 1 + gap THEN Txt(value) ELSE filler]

TwoLabelRow(label, filler, gap, label2, value) ==
  [c \in 1..(MaxGap + 2) |->
     IF c = 1 THEN Txt(label)
     ELSE IF c = gap THEN Txt(label2)
     ELSE IF c = 1 + gap THEN Txt(value)
     ELSE filler]

WideRows ==
  {GapRow("Invoice No", f, g, "12345") :
     f \in Fillers, g \in {1, 3} \cup (MaxGap - 3)..MaxGap}
  \cup {TwoLabelRow("Visit", f, g, "Visit No", "V9") :
          f \in Fillers, g \in (MaxGap - 3)..MaxGap}

WideSheets == {<<r, Pad(ScenarioHeader, MaxGap + 2)>> : r \in WideRows}

\* a sheet whose item row has a Description with an unclosed tag
MarkupItem ==
  <<Txt("<b>Room Fee"), Int_(1), Txt("Each"), Txt("2024-01-01"), Flt(100000),
    Int_(0), Flt(80000), Int_(0), Flt(20000), Int_(0)>>

MarkupSheets == {<<ScenarioHeader, MarkupItem, ScenarioTerminator>>}

\* the workbooks of the extraction specification: one sheet each
SheetBooks ==
  {<<[name |-> "S1", df |-> d]>> :
     d \in LocSheets \cup ItemSheets \cup MetaSheets \cup WideSheets
            \cup MarkupSheets}

\* the sheets of the store specification
InvoiceSheet(inv, total) ==
  <<<<Txt("Invoice No"), Txt(inv), NaN>>,
    <<Txt("Description"), Txt("Qty"), Txt("Debit")>>,
    <<Txt("Room Fee"), Int_(1), Flt(total)>>,
    <<Txt("Grand Total"), NaN, Flt(total)>>>>

VisitSheet(visit) ==
  <<<<Txt("Visit"), Txt(visit), NaN>>,
    <<Txt("Description"), Txt("Qty"), Txt("Debit")>>,
    <<Txt("Grand Total"), NaN, Int_(5)>>>>

\* an invoice sheet whose item row cannot be rendered
MarkupInvoiceSheet(inv) ==
  <<<<Txt("Invoice No"), Txt(inv), NaN>>,
    <<Txt("Description"), Txt("Qty"), Txt("Debit")>>,
    <<Txt("<b>Room Fee"), Int_(1), Int_(5)>>,
    <<Txt("Grand Total"), NaN, Int_(5)>>>>

NoHeaderSheet == <<<<Txt("Invoice No"), Txt("101"), NaN>>, <<Txt("Notes"), NaN, NaN>>>>

Book1(d) == <<[name |-> "S1", df |-> d]>>
Book2(d, e) == <<[name |-> "S1", df |-> d], [name |-> "S2", df |-> e]>>

\* the workbooks of the store specification; sheet names are unique in a
\* workbook
StoreBooks ==
  {Book1(InvoiceSheet("101", 50000)),
   Book1(InvoiceSheet("101", 70000)),
   Book1(InvoiceSheet("202", 50000)),
   Book2(NoHeaderSheet, InvoiceSheet("101", 50000)),
   Book2(VisitSheet("V/7"), NoHeaderSheet),
   Book2(InvoiceSheet("101", 50000), InvoiceSheet("101", 70000)),
   Book2(MarkupInvoiceSheet("303"), InvoiceSheet("202", 50000)),
   Book2(InvoiceSheet("202", 50000), MarkupInvoiceSheet("303"))}

Files(library) == IF library = "sheets" THEN SheetBooks ELSE StoreBooks

\* ------------------------------------------------------------------------
\* State
\* ------------------------------------------------------------------------

VARIABLES
  lib,            \* the workbooks at hand: "books", "sheets" or "overlap"
  runs_left,      \* how many more runs the user starts
  db_file,        \* invoices_db.json: a sequence of records
  docs,           \* the paths of the documents written under invoices/
  pc,             \* the position of the running flow, "idle" between runs
  wb,             \* xls: the workbook of the run
  idx,            \* the sheet the run's loop is at
  current_db,     \* upload flow: the list read by load_db
  df,             \* the sheet being processed
  sheet,          \* its name
  header_row_idx, \* the caller's header_row_idx
  meta,           \* the caller's metadata
  inv_record,     \* upload flow: the record built for the sheet
  filename_base,  \* the caller's filename_base
  em_ret,         \* extract_metadata: where it returns to
  em_i,           \* extract_metadata: the row its loop is at
  metadata,       \* extract_metadata: its dict
  finds,          \* extract_metadata: the val of each block of the last row
  cip_ret,        \* create_invoice_pdf: where it returns to
  output_path,    \* create_invoice_pdf: its output_path
  cip_header,     \* create_invoice_pdf: its header_row_idx
  cols,           \* create_invoice_pdf: the column roles
  cip_meta,       \* create_invoice_pdf: its metadata
  i,              \* create_invoice_pdf: the row its item loop is at
  scan,           \* item loop: "BEFORE_HEADER", "IN_ITEMS", "TERMINATED"
  rowv,           \* item loop: the values read from row i
  reads,          \* item loop: the rows it has read
  items,          \* item loop: the rows appended to table_data
  grand_total_p,
  grand_total_i,
  run_recs,       \* history: the records the current upload run has stored
  last_run,       \* history: how the last upload run ended
  o_runs,         \* a second browser session: how many runs it starts
  o_pc,           \* second session: the position of its upload flow
  o_wb,           \* second session: its workbook
  o_idx,          \* second session: the sheet its loop is at
  o_db,           \* second session: its current_db
  o_recs          \* history: the records the second session has stored

otherVars == <<o_runs, o_pc, o_wb, o_idx, o_db, o_recs>>
runVars ==
  <<lib, otherVars, runs_left, wb, idx, df, sheet, run_recs, last_run>>
storeVars == <<db_file, current_db, docs>>
callerVars == <<header_row_idx, meta, inv_record, filename_base>>
emVars == <<em_ret, em_i, metadata, finds>>
cipCall == <<cip_ret, output_path>>
cipHead == <<cip_header, cols, cip_meta>>
cipLoop == <<i, scan, rowv, reads, items, grand_total_p, grand_total_i>>
vars == <<pc, runVars, storeVars, callerVars, emVars, cipCall, cipHead, cipLoop>>

NoRow ==
  [desc_raw |-> "", date_val |-> "", qty |-> Txt(""), unit |-> Txt(""),
   total |-> Txt(""), disc |-> Txt(""), p_debit |-> Txt(""),
   p_credit |-> Txt(""), i_debit |-> Txt(""), i_credit |-> Txt("")]

InitWith(library, runs) ==
  /\ lib = library
  /\ runs_left = runs
  /\ db_file = <<>>
  /\ docs = {}
  /\ pc = "idle"
  /\ wb = <<>>
  /\ idx = 1
  /\ current_db = <<>>
  /\ df = <<>>
  /\ sheet = ""
  /\ header_row_idx = None
  /\ meta = <<>>
  /\ inv_record = NoRecord
  /\ filename_base = ""
  /\ em_ret = ""
  /\ em_i = 1
  /\ metadata = <<>>
  /\ finds = <<>>
  /\ cip_ret = ""
  /\ output_path = ""
  /\ cip_header = None
  /\ cols = EmptyCols
  /\ cip_meta = <<>>
  /\ i = 1
  /\ scan = "BEFORE_HEADER"
  /\ rowv = NoRow
  /\ reads = {}
  /\ items = <<>>
  /\ grand_total_p = 0
  /\ grand_total_i = 0
  /\ run_recs = <<>>
  /\ last_run = "none"
  /\ o_runs = IF library = "overlap" THEN 1 ELSE 0
  /\ o_pc = "idle"
  /\ o_wb = <<>>
  /\ o_idx = 1
  /\ o_db = <<>>
  /\ o_recs = <<>>

\* the locals of a run are gone when it ends
EndRun ==
  /\ pc' = "idle"
  /\ wb' = <<>>
  /\ idx' = 1
  /\ current_db' = <<>>
  /\ df' = <<>>
  /\ sheet' = ""
  /\ header_row_idx' = None
  /\ meta' = <<>>
  /\ inv_record' = NoRecord
  /\ filename_base' = ""
  /\ em_ret' = ""
  /\ em_i' = 1
  /\ metadata' = <<>>
  /\ finds' = <<>>
  /\ cip_ret' = ""
  /\ output_path' = ""
  /\ cip_header' = None
  /\ cols' = EmptyCols
  /\ cip_meta' = <<>>
  /\ i' = 1
  /\ scan' = "BEFORE_HEADER"
  /\ rowv' = NoRow
  /\ reads' = {}
  /\ items' = <<>>
  /\ grand_total_p' = 0
  /\ grand_total_i' = 0

Init == InitWith("books", MaxRuns)

InitSheet == InitWith("sheets", 1)

\* ------------------------------------------------------------------------
\* extract_metadata(df, stop_row_idx)
\* ------------------------------------------------------------------------

\* the call: metadata = {} and the defaults
CallExtract(ret) ==
  /\ pc' = "em_row"
  /\ em_ret' = ret
  /\ em_i' = 1
  /\ metadata' = DefaultMetadata
  /\ finds' = <<>>

\* stop_row_idx, as the caller passed it
StopRow == IF em_ret = "cip_roles" THEN cip_header ELSE header_row_idx

\* one iteration of the loop over df.head(stop_row_idx)
ExtractMetadataRow ==
  /\ pc = "em_row"
  /\ em_i < StopRow
  /\ finds' = RowFinds(metadata, df[em_i])
  /\ metadata' = MetaRow(metadata, df[em_i])
  /\ em_i' = em_i + 1
  /\ UNCHANGED <<pc, runVars, storeVars, callerVars, em_ret, cipCall, cipHead,
                 cipLoop>>

\* return metadata
ExtractMetadataReturn ==
  /\ pc = "em_row"
  /\ em_i >= StopRow
  /\ pc' = em_ret
  /\ IF em_ret = "cip_roles"
     THEN cip_meta' = metadata /\ meta' = meta
     ELSE meta' = metadata /\ cip_meta' = cip_meta
  /\ UNCHANGED <<runVars, storeVars, header_row_idx, inv_record, filename_base,
                 emVars, cipCall, cip_header, cols, cipLoop>>

\* ------------------------------------------------------------------------
\* create_invoice_pdf(df, sheet_name, output_path)
\* ------------------------------------------------------------------------

CallCreate(ret, path) ==
  /\ pc' = "cip_locate"
  /\ cip_ret' = ret
  /\ output_path' = path

\* the locals of the item loop before it starts
ResetLoop ==
  /\ i' = 1
  /\ scan' = "BEFORE_HEADER"
  /\ rowv' = NoRow
  /\ reads' = {}
  /\ items' = <<>>
  /\ grand_total_p' = 0
  /\ grand_total_i' = 0

\* the header loop finds a header row: the roles are mapped and
\* extract_metadata is called
CipLocate ==
  /\ pc = "cip_locate"
  /\ HeaderLocator(df) # None
  /\ cip_header' = HeaderLocator(df)
  /\ cols' = MapColumns(df[HeaderLocator(df)])
  /\ CallExtract("cip_roles")
  /\ ResetLoop
  /\ UNCHANGED <<runVars, storeVars, callerVars, cipCall, cip_meta>>
\* a create_invoice_pdf that writes a document for a sheet without header
CipNoHeaderWrites ==
  /\ pc = "cip_locate"
  /\ HeaderLocator(df) = None
  /\ pc' = cip_ret
  /\ cip_header' = None
  /\ cols' = EmptyCols
  /\ ResetLoop
  /\ docs' = docs \cup {output_path}
  /\ UNCHANGED <<runVars, db_file, current_db, callerVars, emVars, cipCall,
                 cip_meta>>

\* no header row: "Skipping ...", return
CipNoHeader ==
  /\ pc = "cip_locate"
  /\ HeaderLocator(df) = None
  /\ pc' = cip_ret
  /\ cip_header' = None
  /\ cols' = EmptyCols
  /\ ResetLoop
  /\ UNCHANGED <<runVars, storeVars, callerVars, emVars, cipCall, cip_meta>>

\* after extract_metadata: the roles of the Debit and Credit pairs, the
\* document header, and the item loop starts below the header row
CipRoles ==
  /\ pc = "cip_roles"
  /\ pc' = "cip_items"
  /\ i' = cip_header + 1
  /\ scan' = "IN_ITEMS"
  /\ UNCHANGED <<runVars, storeVars, callerVars, emVars, cipCall, cipHead,
                 rowv, reads, items, grand_total_p, grand_total_i>>

\* one iteration of the item loop
CipItemRow ==
  /\ pc = "cip_items"
  /\ scan = "IN_ITEMS"
  /\ i <= Len(df)
  /\ ~ParagraphRaises(ReadRow(df[i], cols))
  /\ LET r == ReadRow(df[i], cols)
     IN  /\ rowv' = r
         /\ reads' = reads \cup {i}
         /\ IF IsGrandTotal(r)
            THEN /\ grand_total_p' = GrandTotalP(r)
                 /\ grand_total_i' = GrandTotalI(r)
                 /\ scan' = "TERMINATED"
                 /\ UNCHANGED <<i, items>>
            ELSE /\ i' = i + 1
                 /\ items' = IF IsSkipped(r) THEN items
                             ELSE Append(items, LineItem(r, i))
                 /\ UNCHANGED <<scan, grand_total_p, grand_total_i>>
  /\ UNCHANGED <<pc, runVars, storeVars, callerVars, emVars, cipCall, cipHead>>

\* the Description paragraph of row i raises: nothing in create_invoice_pdf
\* catches it, and the try of the caller (the upload flow, or main) ends
\* the run
CipRaise ==
  /\ pc = "cip_items"
  /\ scan = "IN_ITEMS"
  /\ i <= Len(df)
  /\ ParagraphRaises(ReadRow(df[i], cols))
  /\ last_run' = IF cip_ret = "up_store" THEN "failed" ELSE last_run
  /\ EndRun
  /\ UNCHANGED <<lib, otherVars, runs_left, run_recs, db_file, docs>>

\* the Grand Total row, the total box and doc.build, which may fail
CipBuild ==
  /\ pc = "cip_items"
  /\ scan = "TERMINATED" \/ i > Len(df)
  /\ pc' = cip_ret
  /\ \E built \in BOOLEAN :
       docs' = IF built THEN docs \cup {output_path} ELSE docs
  /\ UNCHANGED <<runVars, db_file, current_db, callerVars, emVars, cipCall,
                 cipHead, cipLoop>>

\* ------------------------------------------------------------------------
\* Upload New Data (app.py)
\* ------------------------------------------------------------------------

\* "Process & Save to Local Storage": current_db = load_db()
UploadClick ==
  /\ pc = "idle"
  /\ runs_left > 0
  /\ \E w \in Files(lib) : wb' = w
  /\ runs_left' = runs_left - 1
  /\ current_db' = db_file
  /\ idx' = 1
  /\ run_recs' = <<>>
  /\ last_run' = "running"
  /\ pc' = "up_sheet"
  /\ UNCHANGED <<lib, otherVars, df, sheet, db_file, docs, callerVars, emVars, cipCall,
                 cipHead, cipLoop>>

\* a sheet with a header row: extract_metadata is called
UploadFindHeader ==
  /\ pc = "up_sheet"
  /\ idx <= Len(wb)
  /\ HeaderLocator(wb[idx].df) # None
  /\ df' = wb[idx].df
  /\ sheet' = wb[idx].name
  /\ header_row_idx' = HeaderLocator(wb[idx].df)
  /\ CallExtract("up_meta")
  /\ UNCHANGED <<lib, otherVars, runs_left, wb, idx, run_recs, last_run, storeVars, meta,
                 inv_record, filename_base, cipCall, cipHead, cipLoop>>

\* a sheet without a header row: only the progress bar moves
UploadSkipSheet ==
  /\ pc = "up_sheet"
  /\ idx <= Len(wb)
  /\ HeaderLocator(wb[idx].df) = None
  /\ df' = wb[idx].df
  /\ sheet' = wb[idx].name
  /\ header_row_idx' = None
  /\ idx' = idx + 1
  /\ UNCHANGED <<pc, lib, otherVars, runs_left, wb, run_recs, last_run, storeVars, meta,
                 inv_record, filename_base, emVars, cipCall, cipHead, cipLoop>>

\* the total, the record, the file name, and the call of create_invoice_pdf
UploadCalcTotal ==
  /\ pc = "up_meta"
  /\ inv_record' =
       [id |-> sheet \o "_" \o GetStr(Get(meta, "Invoice No")),
        sheet_name |-> sheet,
        metadata |-> meta,
        grand_total |-> AppGrandTotal(df, header_row_idx),
        pdf_path |-> ""]
  /\ filename_base' = FilenameBase(meta, sheet)
  /\ CallCreate("up_store", PdfPath(FilenameBase(meta, sheet)))
  /\ UNCHANGED <<runVars, storeVars, header_row_idx, meta, emVars, cipHead,
                 cipLoop>>

\* an upload flow that saves the store after every sheet
UploadStoreRecordSaves ==
  /\ pc = "up_store"
  /\ inv_record' = [inv_record EXCEPT !.pdf_path = PdfPath(filename_base)]
  /\ current_db' = StoreRecord(current_db, inv_record')
  /\ db_file' = current_db'
  /\ run_recs' = Append(run_recs, inv_record')
  /\ idx' = idx + 1
  /\ pc' = "up_sheet"
  /\ UNCHANGED <<lib, otherVars, runs_left, wb, df, sheet, last_run, docs,
                 header_row_idx, meta, filename_base, emVars, cipCall, cipHead,
                 cipLoop>>

\* the record gets its pdf_path and replaces the one of the same id
UploadStoreRecord ==
  /\ pc = "up_store"
  /\ inv_record' = [inv_record EXCEPT !.pdf_path = PdfPath(filename_base)]
  /\ current_db' = StoreRecord(current_db, inv_record')
  /\ run_recs' = Append(run_recs, inv_record')
  /\ idx' = idx + 1
  /\ pc' = "up_sheet"
  /\ UNCHANGED <<lib, otherVars, runs_left, wb, df, sheet, last_run, db_file, docs,
                 header_row_idx, meta, filename_base, emVars, cipCall, cipHead,
                 cipLoop>>

\* after the last sheet: save_db(current_db)
UploadSave ==
  /\ pc = "up_sheet"
  /\ idx > Len(wb)
  /\ db_file' = current_db
  /\ last_run' = "saved"
  /\ EndRun
  /\ UNCHANGED <<lib, otherVars, runs_left, run_recs, docs>>

\* pd.read_excel raises: the except of the upload flow reports the error
UploadRaise ==
  /\ pc = "up_sheet"
  /\ idx <= Len(wb)
  /\ last_run' = "failed"
  /\ EndRun
  /\ UNCHANGED <<lib, otherVars, runs_left, run_recs, db_file, docs>>

\* Settings: "Clear Invoice Database"
ClearDb ==
  /\ pc = "idle"
  /\ db_file # <<>>
  /\ db_file' = <<>>
  /\ last_run' = "cleared"
  /\ UNCHANGED <<pc, lib, otherVars, runs_left, wb, idx, df, sheet, run_recs, current_db,
                 docs, callerVars, emVars, cipCall, cipHead, cipLoop>>

\* ------------------------------------------------------------------------
\* main() of generate_invoices.py: the batch script
\* ------------------------------------------------------------------------

MainStart ==
  /\ pc = "idle"
  /\ runs_left > 0
  /\ \E w \in Files(lib) : wb' = w
  /\ runs_left' = runs_left - 1
  /\ idx' = 1
  /\ pc' = "main_sheet"
  /\ UNCHANGED <<lib, otherVars, df, sheet, run_recs, last_run, storeVars, callerVars,
                 emVars, cipCall, cipHead, cipLoop>>

\* a sheet with a header row: extract_metadata is called
MainFindHeader ==
  /\ pc = "main_sheet"
  /\ idx <= Len(wb)
  /\ HeaderLocator(wb[idx].df) # None
  /\ df' = wb[idx].df
  /\ sheet' = wb[idx].name
  /\ header_row_idx' = HeaderLocator(wb[idx].df)
  /\ CallExtract("main_meta")
  /\ UNCHANGED <<lib, otherVars, runs_left, wb, idx, run_recs, last_run, storeVars, meta,
                 inv_record, filename_base, cipCall, cipHead, cipLoop>>

\* a sheet without a header row: metadata = {}
MainNoHeader ==
  /\ pc = "main_sheet"
  /\ idx <= Len(wb)
  /\ HeaderLocator(wb[idx].df) = None
  /\ df' = wb[idx].df
  /\ sheet' = wb[idx].name
  /\ header_row_idx' = None
  /\ meta' = <<>>
  /\ pc' = "main_meta"
  /\ UNCHANGED <<lib, otherVars, runs_left, wb, idx, run_recs, last_run, storeVars,
                 inv_record, filename_base, emVars, cipCall, cipHead, cipLoop>>

\* the file name and the call of create_invoice_pdf
MainFilename ==
  /\ pc = "main_meta"
  /\ filename_base' = FilenameBase(meta, sheet)
  /\ CallCreate("main_next", PdfPath(FilenameBase(meta, sheet)))
  /\ UNCHANGED <<runVars, storeVars, header_row_idx, meta, inv_record, emVars,
                 cipHead, cipLoop>>

\* the next sheet
MainNext ==
  /\ pc = "main_next"
  /\ idx' = idx + 1
  /\ pc' = "main_sheet"
  /\ UNCHANGED <<lib, otherVars, runs_left, wb, df, sheet, run_recs, last_run, storeVars,
                 callerVars, emVars, cipCall, cipHead, cipLoop>>

\* "All Invoices generated"
MainEnd ==
  /\ pc = "main_sheet"
  /\ idx > Len(wb)
  /\ EndRun
  /\ UNCHANGED <<lib, otherVars, runs_left, run_recs, last_run, db_file, docs>>

\* pd.read_excel raises: "Critical Error"
MainRaise ==
  /\ pc = "main_sheet"
  /\ idx <= Len(wb)
  /\ EndRun
  /\ UNCHANGED <<lib, otherVars, runs_left, run_recs, last_run, db_file, docs>>

Next ==
  \/ ExtractMetadataRow
  \/ ExtractMetadataReturn
  \/ CipLocate
  \/ CipNoHeader
  \/ CipRoles
  \/ CipItemRow
  \/ CipRaise
  \/ CipBuild
  \/ UploadClick
  \/ UploadFindHeader
  \/ UploadSkipSheet
  \/ UploadCalcTotal
  \/ UploadStoreRecord
  \/ UploadSave
  \/ UploadRaise
  \/ ClearDb
  \/ MainStart
  \/ MainFindHeader
  \/ MainNoHeader
  \/ MainFilename
  \/ MainNext
  \/ MainEnd
  \/ MainRaise

Spec == Init /\ [][Next]_vars

SpecSheet == InitSheet /\ [][Next]_vars

\* ------------------------------------------------------------------------
\* A second session of app.py running the upload flow at the same time.
\* Streamlit runs the script of every browser session in a thread of its
\* own; the sessions share invoices_db.json and invoices/. The second
\* session's flow is the same code, taken one sheet at a time.
\* ------------------------------------------------------------------------

\* extract_metadata(df, stop_row_idx) as a whole
RECURSIVE ExtractFrom(_, _, _, _)
ExtractFrom(md, rows, k, stop_row_idx) ==
  IF k >= stop_row_idx THEN md
  ELSE ExtractFrom(MetaRow(md, rows[k]), rows, k + 1, stop_row_idx)

extract_metadata(rows, stop_row_idx) ==
  ExtractFrom(DefaultMetadata, rows, 1, stop_row_idx)

\* create_invoice_pdf raises in its item loop
RECURSIVE RaisesFrom(_, _, _)
RaisesFrom(rows, roles, k) ==
  IF k > Len(rows) THEN FALSE
  ELSE LET r == ReadRow(rows[k], roles)
       IN  IF IsGrandTotal(r) THEN FALSE
           ELSE ParagraphRaises(r) \/ RaisesFrom(rows, roles, k + 1)

CreateRaises(rows) ==
  LET h == HeaderLocator(rows)
  IN  h # None /\ RaisesFrom(rows, MapColumns(rows[h]), h + 1)

\* the inv_record of a sheet with a header row, pdf_path included
RecordOf(name, rows) ==
  LET h == HeaderLocator(rows)
      m == extract_metadata(rows, h)
  IN  [id |-> name \o "_" \o GetStr(Get(m, "Invoice No")),
       sheet_name |-> name,
       metadata |-> m,
       grand_total |-> AppGrandTotal(rows, h),
       pdf_path |-> PdfPath(FilenameBase(m, name))]

\* what the first session and the disk hold besides the store file
firstVars ==
  <<pc, lib, runs_left, wb, idx, df, sheet, run_recs, last_run, current_db,
    callerVars, emVars, cipCall, cipHead, cipLoop>>

\* "Process & Save to Local Storage": current_db = load_db()
OtherClick ==
  /\ o_pc = "idle"
  /\ o_runs > 0
  /\ o_runs' = o_runs - 1
  /\ \E w \in Files(lib) : o_wb' = w
  /\ o_db' = db_file
  /\ o_idx' = 1
  /\ o_recs' = <<>>
  /\ o_pc' = "sheet"
  /\ UNCHANGED <<firstVars, db_file, docs>>

\* one sheet with a header row: its record replaces the one of its id
OtherSheet ==
  /\ o_pc = "sheet"
  /\ o_idx <= Len(o_wb)
  /\ HeaderLocator(o_wb[o_idx].df) # None
  /\ ~CreateRaises(o_wb[o_idx].df)
  /\ LET rec == RecordOf(o_wb[o_idx].name, o_wb[o_idx].df)
     IN  /\ o_db' = StoreRecord(o_db, rec)
         /\ o_recs' = Append(o_recs, rec)
         /\ \E built \in BOOLEAN :
              docs' = IF built THEN docs \cup {rec.pdf_path} ELSE docs
  /\ o_idx' = o_idx + 1
  /\ UNCHANGED <<firstVars, db_file, o_runs, o_pc, o_wb>>

\* one sheet without a header row
OtherSkipSheet ==
  /\ o_pc = "sheet"
  /\ o_idx <= Len(o_wb)
  /\ HeaderLocator(o_wb[o_idx].df) = None
  /\ o_idx' = o_idx + 1
  /\ UNCHANGED <<firstVars, db_file, docs, o_runs, o_pc, o_wb, o_db, o_recs>>

\* pd.read_excel or create_invoice_pdf raises: the except of the flow
OtherRaise ==
  /\ o_pc = "sheet"
  /\ o_idx <= Len(o_wb)
  /\ o_pc' = "failed"
  /\ UNCHANGED <<firstVars, db_file, docs, o_runs, o_wb, o_idx, o_db, o_recs>>

\* after the last sheet: save_db(current_db)
OtherSave ==
  /\ o_pc = "sheet"
  /\ o_idx > Len(o_wb)
  /\ db_file' = o_db
  /\ o_pc' = "saved"
  /\ UNCHANGED <<firstVars, docs, o_runs, o_wb, o_idx, o_db, o_recs>>

InitOverlap == InitWith("overlap", 1)

\* two sessions upload; nobody clears the store or runs the batch script
NextOverlap ==
  \/ ExtractMetadataRow
  \/ ExtractMetadataReturn
  \/ CipLocate
  \/ CipRoles
  \/ CipItemRow
  \/ CipRaise
  \/ CipBuild
  \/ UploadClick
  \/ UploadFindHeader
  \/ UploadSkipSheet
  \/ UploadCalcTotal
  \/ UploadStoreRecord
  \/ UploadSave
  \/ UploadRaise
  \/ OtherClick
  \/ OtherSheet
  \/ OtherSkipSheet
  \/ OtherRaise
  \/ OtherSave

SpecOverlap == InitOverlap /\ [][NextOverlap]_vars
\* ------------------------------------------------------------------------
\* Properties
\* ------------------------------------------------------------------------

\* a cell that is present and whose lower-cased, trimmed text is v
CellIs(cell, v) == notna(cell) /\ Strip(Lower(PyStr(cell))) = v

Qualifies(row) ==
  /\ \E c \in 1..Len(row) : CellIs(row[c], "description")
  /\ \E c \in 1..Len(row) : CellIs(row[c], "qty") \/ CellIs(row[c], "unit")

IsPivot(sheet_rows, h) ==
  IF h = None THEN \A r \in 1..Len(sheet_rows) : ~Qualifies(sheet_rows[r])
  ELSE /\ h \in 1..Len(sheet_rows)
       /\ Qualifies(sheet_rows[h])
       /\ \A r \in 1..(h - 1) : ~Qualifies(sheet_rows[r])

\* create_invoice_pdf has located the header of df and not returned to a
\* caller that moved on to another sheet
InCreate ==
  \/ pc \in {"cip_roles", "cip_items", "up_store", "main_next"}
  \/ pc = "em_row" /\ em_ret = "cip_roles"

\* C1: the pivot that the upload flow, the batch script and
\* create_invoice_pdf report for a sheet is the smallest row whose present,
\* trimmed, lower-cased cell values include "description" and one of "qty"
\* and "unit"; it is None exactly when no row qualifies.
C1_HeaderLocator ==
  /\ IsPivot(df, header_row_idx)
  /\ InCreate => IsPivot(df, cip_header)

\* C1 witness: the pivot is the third row, below a row that mentions
\* "description" without qualifying
C1_Witness ==
  /\ pc = "cip_roles"
  /\ cip_header = 3
  /\ header_row_idx = 3
  /\ \E r \in 1..2 : \E c \in 1..Len(df[r]) :
       notna(df[r][c]) /\ Contains(Lower(PyStr(df[r][c])), "description")

\* the row r of df holds "Grand Total" in its Description or Date text
GTRow(r) ==
  \/ Contains(Strip(PyStr(get_v(df[r], cols.Description))), "Grand Total")
  \/ Contains(Strip(PyStr(get_v(df[r], cols.Date))), "Grand Total")

C2_State ==
  (InCreate /\ cip_header # None) =>
    /\ \A k \in 1..Len(items) :
         \A r \in (cip_header + 1)..items[k].row : ~GTRow(r)
    /\ \A r \in reads : \A q \in (cip_header + 1)..(r - 1) : ~GTRow(q)
    /\ scan = "TERMINATED" <=> \E r \in reads : GTRow(r)
    /\ scan = "TERMINATED" => GTRow(i)

C2_Step ==
  (scan = "TERMINATED" /\ pc # "cip_locate" /\ pc' # "idle") =>
    UNCHANGED <<scan, items, reads, i>>

\* C2: the first row below the header with "Grand Total" in its Description
\* or Date text ends the scan: it yields no line item, no row after it is
\* read or yields one, and the scan stays terminated.
C2_Termination == []C2_State /\ [][C2_Step]_vars

\* C2 witness: the document is built from a scan that terminated on a row
\* followed by an item-shaped row
C2_Witness ==
  /\ pc = "up_store"
  /\ scan = "TERMINATED"
  /\ i < Len(df)
  /\ df[i + 1] = ScenarioItem
  /\ items = <<>>

\* C3: the end-to-end scenario yields one Item line item and the grand
\* totals Patient = 80.000 and Insurer = 20.000.
C3_Scenario ==
  (df = ScenarioSheet /\ pc \in {"up_store", "main_next"}) =>
    /\ Len(items) = 1
    /\ items[1].kind = "Item"
    /\ grand_total_p = 80000
    /\ grand_total_i = 20000

PlainCells(row, v) == {c \in 1..Len(row) : CellIs(row[c], v)}

MentionCells(row, v) ==
  {c \in 1..Len(row) : notna(row[c]) /\ Contains(Lower(PyStr(row[c])), v)}

Min(S) == CHOOSE m \in S : \A n \in S : m <= n
Max(S) == CHOOSE m \in S : \A n \in S : m >= n

\* the Patient and the Insurer column of a pair, given its header cells
PairOk(cells, patient, insurer) ==
  /\ Cardinality(cells) = 2 => patient = Min(cells) /\ insurer = Max(cells)
  /\ Cardinality(cells) = 1 => patient = Min(cells) /\ insurer = None
  /\ Cardinality(cells) = 0 => patient = None /\ insurer = None

IsValue(v) == v.t \in {"str", "int", "float"}

\* C4: with two "Debit" (or "Credit") header cells Patient is the left one
\* and Insurer the right one; with one or none the missing roles are None;
\* and a row read through a None role gives the empty text, never an error.
C4_ColumnRoles ==
  (pc = "cip_items" /\
   MentionCells(df[cip_header], "debit") = PlainCells(df[cip_header], "debit") /\
   MentionCells(df[cip_header], "credit") = PlainCells(df[cip_header], "credit"))
  =>
    /\ PairOk(PlainCells(df[cip_header], "debit"),
              PatientOf(cols.Debit), InsurerOf(cols.Debit))
    /\ PairOk(PlainCells(df[cip_header], "credit"),
              PatientOf(cols.Credit), InsurerOf(cols.Credit))
    /\ reads # {} =>
         /\ PatientOf(cols.Debit) = None => rowv.p_debit = Txt("")
         /\ InsurerOf(cols.Debit) = None => rowv.i_debit = Txt("")
         /\ PatientOf(cols.Credit) = None => rowv.p_credit = Txt("")
         /\ InsurerOf(cols.Credit) = None => rowv.i_credit = Txt("")
         /\ IsValue(rowv.p_debit) /\ IsValue(rowv.i_debit)
         /\ IsValue(rowv.p_credit) /\ IsValue(rowv.i_credit)

\* C4 witness: a row with numbers in both Debit columns is read under a
\* header that has one Debit cell and one Credit cell
C4_Witness ==
  /\ pc = "cip_items"
  /\ reads # {}
  /\ Cardinality(PlainCells(df[cip_header], "debit")) = 1
  /\ Cardinality(PlainCells(df[cip_header], "credit")) = 1
  /\ \E r \in reads : df[r] = ScenarioItem
  /\ rowv.i_debit = Txt("")
  /\ rowv.i_credit = Txt("")
  /\ rowv.p_debit = Flt(80000)

C5_Step ==
  (pc = "em_row" /\ pc' = "em_row") =>
    \A f \in DOMAIN metadata \ {"VAT No"} :
      f \in DOMAIN metadata' /\ metadata'[f] = metadata[f]

C5_Defaults ==
  pc = "em_row" =>
    /\ metadata["Hospital Name"] = DefaultHospital
    /\ metadata["Address"] = DefaultAddress

\* C5: during the scan of the rows above the pivot a field other than VAT No
\* that has a value keeps it in every later row, and Hospital Name and
\* Address keep their defaults.
C5_WriteOnce == []C5_Defaults /\ [][C5_Step]_vars

\* C5 witness: after two rows VAT No and Insurer hold the values of the
\* first row although the second row offers other values for both
C5_Witness ==
  /\ pc = "em_row"
  /\ em_i = 3
  /\ metadata["VAT No"] = "777"
  /\ "Insurer" \in DOMAIN metadata
  /\ metadata["Insurer"] = "AXA"
  /\ finds["Insurer"].called = FALSE
  /\ CellIs(df[2][1], "insurer")

\* the cells of row_vals that hold a key phrase of the field f
KeyCells(f, row_vals) ==
  {k \in 1..Len(row_vals) :
     LET cell_lower == Lower(row_vals[k])
     IN  \E j \in 1..Len(FieldKeys(f)) :
           Contains(cell_lower, Lower(FieldKeys(f)[j]))}

\* the acceptable cells of the window of the cell k
Window(row_vals, k) ==
  {c \in (k + 1)..(k + 19) :
     /\ c <= Len(row_vals)
     /\ row_vals[c] # ""
     /\ Lower(row_vals[c]) # "nan"
     /\ row_vals[c] # "-"}

\* the row whose blocks set finds
FoundRow == StrVals(df[em_i - 1])

Guarded(m) ==
  /\ "Invoice No" \in DOMAIN m => ~Contains(Lower(m["Invoice No"]), "invoice")
  /\ "Insurer" \in DOMAIN m => Lower(m["Insurer"]) # "patient"

C7_State == Guarded(metadata) /\ Guarded(meta) /\ Guarded(cip_meta)

C7_Step ==
  (pc = "em_row" /\ pc' = "em_row") =>
    /\ (finds'["Invoice No"].found /\
        Contains(Lower(finds'["Invoice No"].val), "invoice"))
         => "Invoice No" \notin DOMAIN metadata'
    /\ (finds'["Insurer"].found /\ Lower(finds'["Insurer"].val) = "patient")
         => "Insurer" \notin DOMAIN metadata'

\* C7: Invoice No never holds a value that contains "invoice" and Insurer
\* never holds "patient"; a row whose candidate is such a label leaves the
\* field unset, so that a later row can resolve it.
C7_LabelGuard == []C7_State /\ [][C7_Step]_vars

\* C7 witness: the first row is ["Invoice", "Invoice"] and the second row
\* has resolved Invoice No
C7_Witness ==
  /\ pc = "em_row"
  /\ em_i = 3
  /\ CellIs(df[1][1], "invoice")
  /\ CellIs(df[1][2], "invoice")
  /\ finds["Invoice No"].called
  /\ "Invoice No" \in DOMAIN metadata
  /\ metadata["Invoice No"] = "999"

Distinct(db, key(_)) ==
  \A j, k \in 1..Len(db) : j # k => key(db[j]) # key(db[k])

IdOf(rec) == rec.id
SheetOf(rec) == rec.sheet_name

\* C8 as claimed: the store never holds two records of one sheet identifier.
C8_OnePerSheet == Distinct(db_file, SheetOf)

\* the record that a run stored last under an id
LastWithId(recs, id) ==
  recs[Max({k \in 1..Len(recs) : recs[k].id = id})]

\* C8 amended: the store never holds two records of one id
\* <sheet identifier>_<Invoice No>, and after a run that saved, the record
\* held for each id the run stored is the one the run stored last.
C8_OnePerId ==
  /\ Distinct(db_file, IdOf)
  /\ Distinct(current_db, IdOf)
  /\ (pc = "idle" /\ last_run = "saved") =>
       \A k \in 1..Len(run_recs) :
         \E j \in 1..Len(db_file) :
           db_file[j] = LastWithId(run_recs, run_recs[k].id)

\* C8 witness: the run has replaced the stored record of one id by a
\* different record of the same id
C8_Witness ==
  /\ pc = "up_sheet"
  /\ Len(db_file) = 1
  /\ Len(current_db) = 1
  /\ current_db[1].id = db_file[1].id
  /\ current_db[1] # db_file[1]
  /\ run_recs = <<current_db[1]>>

Resolved(m, f) == f \in DOMAIN m /\ m[f] # "-"

RawName(m, sheet_name) ==
  IF Resolved(m, "Visit No") THEN "Visit_" \o m["Visit No"]
  ELSE IF Resolved(m, "Invoice No") THEN "Invoice_" \o m["Invoice No"]
  ELSE "Unknown_Sheet_" \o sheet_name

IsDerivedName(name, m, sheet_name) ==
  /\ Len(name) = Len(RawName(m, sheet_name))
  /\ \A k \in 1..Len(name) :
       CharAt(name, k) =
         IF CharAt(RawName(m, sheet_name), k) \in {"/", "\\"} THEN "-"
         ELSE CharAt(RawName(m, sheet_name), k)
  /\ ~Contains(name, "/")
  /\ ~Contains(name, "\\")

\* a flow has derived the file name of the current sheet
HasName == pc = "cip_locate" \/ InCreate

\* C9: in the upload flow and in the batch script alike the base name is
\* Visit_<Visit No>, else Invoice_<Invoice No>, else
\* Unknown_Sheet_<sheet identifier>, with every '/' and '\' replaced by '-',
\* and the path handed to create_invoice_pdf is built from it.
C9_Filename ==
  HasName =>
    /\ IsDerivedName(filename_base, meta, sheet)
    /\ output_path = "invoices/" \o filename_base \o ".pdf"

\* C9 witness: the upload flow has named the document of a sheet whose
\* Visit No holds a backslash
C9_Witness ==
  /\ pc = "up_store"
  /\ "Visit No" \in DOMAIN meta
  /\ Contains(meta["Visit No"], "\\")
  /\ filename_base = "Visit_A-9"

NoHeader(sheet_rows) == \A r \in 1..Len(sheet_rows) : ~Qualifies(sheet_rows[r])

\* the step handles a sheet without header row
SkipsSheet ==
  \/ /\ pc \in {"up_sheet", "main_sheet"}
     /\ idx <= Len(wb)
     /\ NoHeader(wb[idx].df)
  \/ /\ pc \in {"main_meta", "cip_locate", "main_next"}
     /\ NoHeader(df)

C10_Step ==
  SkipsSheet =>
    /\ docs' = docs
    /\ db_file' = db_file
    /\ current_db' = current_db \/ pc' = "idle"
    /\ (pc = "up_sheet" /\ last_run' # "failed") =>
         pc' = "up_sheet" /\ idx' = idx + 1
    /\ pc = "main_next" => pc' = "main_sheet" /\ idx' = idx + 1

\* every sheet with a header row that the upload loop has passed has its
\* record in the list
C10_State ==
  pc = "up_sheet" =>
    \A k \in 1..(idx - 1) :
      NoHeader(wb[k].df) \/
        \E j \in 1..Len(current_db) :
          /\ current_db[j].sheet_name = wb[k].name
          /\ \E n \in 1..Len(run_recs) : run_recs[n] = current_db[j]

\* C10: a sheet without header row produces no document and no record and
\* leaves the store as it is, and the loop goes on to the next sheet: the
\* sheets after it are processed and stored.
C10_StructuralAbsence == []C10_State /\ [][C10_Step]_vars

\* C10 witness: the upload loop has passed a first sheet without header row
\* and stored the record of the second sheet
C10_Witness ==
  /\ pc = "up_sheet"
  /\ idx = 3
  /\ NoHeader(wb[1].df)
  /\ Len(current_db) = 1
  /\ current_db[1].sheet_name = "S2"

\* the upload flow is inside its call of create_invoice_pdf
InUploadCreate ==
  /\ cip_ret = "up_store"
  /\ \/ pc \in {"cip_locate", "cip_roles", "cip_items"}
     \/ pc = "em_row" /\ em_ret = "cip_roles"

C11_Step == InUploadCreate => pc' # "idle" /\ last_run' = last_run

\* C11: a failure while the document of one sheet is generated does not
\* abort the upload run: no step taken inside create_invoice_pdf ends the
\* run or marks it failed, so the remaining sheets are processed and saved.
C11_RenderingIsolation == [][C11_Step]_vars

HasId(db, id) == \E j \in 1..Len(db) : db[j].id = id

\* C12: when two upload runs have both saved, the store holds a record for
\* every id either run stored, whichever way the runs overlapped.
C12_Serialized ==
  (pc = "idle" /\ last_run = "saved" /\ o_pc = "saved") =>
    /\ \A k \in 1..Len(run_recs) : HasId(db_file, run_recs[k].id)
    /\ \A k \in 1..Len(o_recs) : HasId(db_file, o_recs[k].id)

\* the parsed value of the cell of a role in a row: 0 when the role has no
\* column, the cell is absent or its text is not a number
Parsed(row, c) == IF c = None \/ ~notna(row[c]) THEN 0 ELSE ToFloat(row[c])

Has(r, c) == c # None /\ notna(df[r][c])

\* the trimmed text of the cell of a role, empty when there is no cell
TextOf(r, c) == IF Has(r, c) THEN Strip(PyStr(df[r][c])) ELSE ""

\* the cell of a role holds nothing that counts: no cell, empty text or 0
Blank(r, c) == ~Has(r, c) \/ df[r][c] \in {Txt(""), Int_(0), Flt(0)}

\* row r is a blank spacer
Spacer(r) ==
  /\ TextOf(r, cols.Description) = ""
  /\ Blank(r, cols.Qty)
  /\ Blank(r, PatientOf(cols.Debit))
  /\ Blank(r, InsurerOf(cols.Debit))

\* the rows below the header that the item loop has gone past
Passed == (cip_header + 1)..(i - 1)

KindOf(r) ==
  IF Contains(Lower(TextOf(r, cols.Description)), "total") THEN "Subtotal"
  ELSE IF /\ TextOf(r, cols.Description) # ""
          /\ (~Has(r, cols.Qty) \/ df[r][cols.Qty] = Txt(""))
       THEN "CategoryHeader"
  ELSE "Item"

\* C14: the rows the item loop has gone past that are not blank spacers
\* are the line items, one each and in sheet row order, and the kind of
\* each is Subtotal if its lower-cased description contains "total",
\* otherwise CategoryHeader if it has a description and no Qty, otherwise
\* Item.
C14_Classification ==
  (InCreate /\ cip_header # None) =>
    /\ \A k \in 1..Len(items) : items[k].row \in Passed
    /\ \A k, l \in 1..Len(items) : k < l => items[k].row < items[l].row
    /\ \A r \in Passed : ~Spacer(r) => \E k \in 1..Len(items) : items[k].row = r
    /\ \A k \in 1..Len(items) :
         ~Spacer(items[k].row) /\ items[k].kind = KindOf(items[k].row)

\* C14 witness: a row with a description and no Qty is a CategoryHeader,
\* and the row after it, whose description contains "total" and which has
\* no Qty either, is a Subtotal
C14_Witness ==
  /\ pc = "up_store"
  /\ Len(items) = 2
  /\ items[1].kind = "CategoryHeader"
  /\ items[2].kind = "Subtotal"
  /\ rowv.desc_raw = "grand total"
  /\ rowv.qty = Txt("")

Emitted(r) == \E k \in 1..Len(items) : items[k].row = r

\* a blank spacer as claimed: no Description, no Qty cell, and nothing or
\* zero in both debit cells
SpacerAsClaimed(r) ==
  /\ TextOf(r, cols.Description) = ""
  /\ ~Has(r, cols.Qty)
  /\ Blank(r, PatientOf(cols.Debit))
  /\ Blank(r, InsurerOf(cols.Debit))

\* C15 as claimed: a row is omitted if and only if it has no Description,
\* no Qty and zero or absent debits; a row with a present Qty cell is never
\* dropped.
C15_SkipAsClaimed ==
  (InCreate /\ cip_header # None) =>
    \A r \in Passed : ~Emitted(r) <=> SpacerAsClaimed(r)

\* C15 amended: a row is omitted if and only if its Description is empty
\* and its Qty, Patient-Debit and Insurer-Debit cells are each absent,
\* empty or zero; a Qty cell that holds 0 does not keep the row.
C15_SkipRule ==
  (InCreate /\ cip_header # None) =>
    \A r \in Passed : ~Emitted(r) <=> Spacer(r)

\* C15 witness: the loop has dropped a row whose Qty cell and Patient-Debit
\* cell are present and hold 0
C15_Witness ==
  /\ pc = "up_store"
  /\ scan = "IN_ITEMS"
  /\ rowv.qty = Int_(0)
  /\ rowv.p_debit = Int_(0)
  /\ items = <<>>
  /\ Passed # {}

\* the role the precedence list gives a header cell text, "" for none
RuleOf(text) ==
  LET v == Lower(Strip(text))
  IN  CASE Contains(v, "description") -> "Description"
        [] ~Contains(v, "description") /\ Contains(v, "qty") -> "Qty"
        [] OTHER ->
           IF Contains(v, "unit") THEN "Unit"
           ELSE IF Contains(v, "date") /\ ~Contains(v, "admission") THEN "Date"
           ELSE IF Contains(v, "total") /\ ~Contains(v, "grand") THEN "Total"
           ELSE IF Contains(v, "discount") THEN "Discount"
           ELSE IF Contains(v, "debit") THEN "Debit"
           ELSE IF Contains(v, "credit") THEN "Credit"
           ELSE ""

\* the present cells of the header row that the precedence list gives role R
RoleCells(R) ==
  {c \in 1..Len(df[cip_header]) :
     notna(df[cip_header][c]) /\ RuleOf(PyStr(df[cip_header][c])) = R}

SingleRoles == {"Description", "Qty", "Unit", "Date", "Total", "Discount"}

\* C16: every present header cell gets the first role of the precedence
\* list that its text matches, and a single-valued role that several cells
\* match belongs to the leftmost of them.
C16_FirstMatchWins ==
  (InCreate /\ cip_header # None) =>
    \A R \in SingleRoles :
      cols[R] = IF RoleCells(R) = {} THEN None ELSE Min(RoleCells(R))

\* a cell rendered as claimed: 3 decimal places for a number, the text
\* itself for text, empty text for no cell
Rendered(r, c) ==
  IF ~Has(r, c) THEN ""
  ELSE IF df[r][c].t \in {"int", "float"} THEN Fmt3(df[r][c].n)
  ELSE df[r][c].s

\* the columns of the numeric fields, in the order of the item table
NumericRoles ==
  <<cols.Qty, cols.Unit, None, cols.Total, cols.Discount,
    PatientOf(cols.Debit), PatientOf(cols.Credit),
    InsurerOf(cols.Debit), InsurerOf(cols.Credit)>>

\* the positions of the numeric fields in NumericRoles: all but the Date
NumericFields == {1, 2, 4, 5, 6, 7, 8, 9}

\* C17: in every Item row each of quantity, unit, unit price, discount,
\* patient debit, patient credit, insurer debit and insurer credit shows 3
\* decimal places when its cell is a number, its text when it is text, and
\* empty text when there is no cell.
C17_ItemFormatting ==
  (InCreate /\ cip_header # None) =>
    \A k \in 1..Len(items) :
      items[k].kind = "Item" =>
        \A f \in NumericFields :
          items[k].cells[f + 1] = Rendered(items[k].row, NumericRoles[f])

\* C18: when create_invoice_pdf has returned to the upload flow, the
\* grand_total of the record the flow built for the sheet is the patient
\* grand total the document shows.
C18_SameGrandTotal ==
  pc = "up_store" => inv_record.grand_total = grand_total_p

\* post is pre with the records recs replaced or appended: it holds the
\* last record of every id in recs, the records of pre of every other id,
\* and nothing else
SavedFrom(pre, recs, post) ==
  /\ \A k \in 1..Len(recs) :
       \E j \in 1..Len(post) : post[j] = LastWithId(recs, recs[k].id)
  /\ \A m \in 1..Len(pre) :
       HasId(recs, pre[m].id) \/ \E j \in 1..Len(post) : post[j] = pre[m]
  /\ \A j \in 1..Len(post) :
       IF HasId(recs, post[j].id)
       THEN post[j] = LastWithId(recs, post[j].id)
       ELSE \E m \in 1..Len(pre) : pre[m] = post[j]
  /\ Distinct(post, IdOf)

C19_Step ==
  /\ db_file' # db_file =>
       \/ pc = "idle" /\ db_file' = <<>>
       \/ /\ pc = "up_sheet"
          /\ idx > Len(wb)
          /\ pc' = "idle"
          /\ last_run' = "saved"
          /\ SavedFrom(db_file, run_recs, db_file')
  /\ (last_run = "running" /\ last_run' # "running") =>
       /\ pc' = "idle"
       /\ last_run' \in {"saved", "failed"}
       /\ last_run' = "failed" => db_file' = db_file
       /\ last_run' = "saved" => SavedFrom(db_file, run_recs, db_file')

\* C19: an upload run writes the store file in one step only, the one that
\* ends it after the last sheet; a run that fails leaves the file as it was
\* before the run, whatever records and documents it had produced; a run
\* that saves writes the pre-run store with the record of each processed
\* sheet replaced or appended.
C19_SaveOnce == [][C19_Step]_vars

\* C19 witness: a run has failed at its second sheet after the document of
\* the first was written and its record built, and the store still holds
\* the one record of an earlier run and not the record of the failed run
C19_Witness ==
  /\ pc = "idle"
  /\ last_run = "failed"
  /\ Len(run_recs) = 1
  /\ run_recs[1].pdf_path \in docs
  /\ Len(db_file) = 1
  /\ ~HasId(db_file, run_recs[1].id)

\* C20: two records of the store with different ids never have the same
\* pdf_path.
C20_DistinctPaths ==
  \A j, k \in 1..Len(db_file) :
    db_file[j].id # db_file[k].id => db_file[j].pdf_path # db_file[k].pdf_path

====
